---- MODULE Spec2Model ----
(***************************************************************************)
(* A model of the cryptographic core of GoFE:                              *)
(*   - the decentralized Damgard multi-client key shares                   *)
(*     (innerprod/fullysec/damgard_dec_multi.go),                          *)
(*   - the ring-LWE inner-product scheme and its parameter search,         *)
(*   - the multi-authority ABE scheme (abe/ma-abe.go).                     *)
(* Groups of prime order are modelled by the exponents of their elements   *)
(* with respect to the fixed generator, moduli are scaled down.            *)
(***************************************************************************)
EXTENDS Integers, Sequences, FiniteSets, TLC

VARIABLES
    auth,   \* MA-ABE: the authorities (MAABEAuth), by ID
    ks,     \* MA-ABE: the attribute keys the user has been issued, in order
    ct,     \* MA-ABE: the ciphertext produced by Encrypt (NoCipher before)
    sent,   \* MA-ABE: history, what the last successful Encrypt was given
    res,    \* MA-ABE: what Decrypt returned, and its intermediate values
    lwe,    \* ring-LWE: parameters, keys, ciphertext and results
    srch,   \* ring-LWE: the run of NewRingLWE's parameter search
    dmc     \* decentralized Damgard: the clients (DamgardDecMultiClient)

vars == <<auth, ks, ct, sent, res, lwe, srch, dmc>>

abeVars == <<auth, ks, ct, sent, res>>

\* The value of a subsystem's variables in a specification of another one.
Idle == "idle"

-----------------------------------------------------------------------------
(* Vectors and matrices (package data): a vector is a sequence of integers, *)
(* a matrix a sequence of rows.                                             *)

RECURSIVE SeqSum(_)
SeqSum(s) == IF s = <<>> THEN 0 ELSE Head(s) + SeqSum(Tail(s))

NewConstantVector(n, c) == [i \in 1..n |-> c]

NewConstantMatrix(rows, cols, c) == [i \in 1..rows |-> NewConstantVector(cols, c)]

VecAdd(v, w) == [i \in 1..Len(v) |-> v[i] + w[i]]

VecSub(v, w) == [i \in 1..Len(v) |-> v[i] - w[i]]

VecMod(v, m) == [i \in 1..Len(v) |-> v[i] % m]

VecNeg(v) == [i \in 1..Len(v) |-> 0 - v[i]]

MatAdd(a, b) == [i \in 1..Len(a) |-> VecAdd(a[i], b[i])]

MatSub(a, b) == [i \in 1..Len(a) |-> VecSub(a[i], b[i])]

MatMod(a, m) == [i \in 1..Len(a) |-> VecMod(a[i], m)]

Rows(m) == Len(m)

Cols(m) == IF Len(m) # 0 THEN Len(m[1]) ELSE 0

CheckDims(m, rows, cols) == Rows(m) = rows /\ Cols(m) = cols

Transpose(m) == [j \in 1..Cols(m) |-> [i \in 1..Rows(m) |-> m[i][j]]]

Dot(v, w) == SeqSum([i \in 1..Len(v) |-> v[i] * w[i]])

MulVec(m, v) == [i \in 1..Rows(m) |-> Dot(m[i], v)]

Abs(x) == IF x < 0 THEN 0 - x ELSE x

\* All vectors of length n over the set S.
VectorsOver(S, n) == [1..n -> S]

\* All rows x cols matrices over the set S.
MatricesOver(S, rows, cols) == [1..rows -> [1..cols -> S]]

-----------------------------------------------------------------------------
(* Decentralized Damgard multi-client scheme: the key shares.               *)

\* The number of clients of the underlying DamgardMulti scheme.
NumClients == 3

\* Params.L of the underlying scheme, the length of the clients' vectors.
DamgardL == 2

\* Params.P, Params.G and Params.Q: G generates the subgroup of order Q of
\* the multiplicative group modulo the prime P (scaled down).
DamgardP == 7

DamgardG == 2

DamgardQ == 3

Clients == 0..(NumClients - 1)

RECURSIVE ModExp(_, _, _)
ModExp(b, e, m) == IF e = 0 THEN 1 % m ELSE (b * ModExp(b, e - 1, m)) % m

\* big.Int.String(), as bytes: the decimal digits in ASCII.
RECURSIVE DecimalString(_)
DecimalString(n) ==
    IF n < 10 THEN <<48 + n>>
    ELSE Append(DecimalString(n \div 10), 48 + (n % 10))

\* sha256.New().Sum(nil): the digest of the empty input, which Sum appends
\* to its argument.
EmptySum ==
    << 227, 176, 196, 66, 152, 252, 28, 20, 154, 251, 244, 200, 153, 111,
       185, 36, 39, 174, 65, 228, 100, 155, 147, 76, 164, 149, 153, 27, 120,
       82, 184, 85 >>

\* The length of sharedKeyFixed.
SharedKeyLen == 32

\* sharedKeyFixed: the first 32 bytes of sharedNum's decimal string followed
\* by the digest of the empty input.
SharedKeyFixed(sharedNum) ==
    SubSeq(DecimalString(sharedNum) \o EmptySum, 1, SharedKeyLen)

RECURSIVE KeySeed(_)
KeySeed(key) ==
    IF key = <<>> THEN 7
    ELSE (31 * KeySeed(SubSeq(key, 1, Len(key) - 1)) + key[Len(key)]) % 1009

\* data.NewRandomDetMatrix: a matrix over [0, max) that is a deterministic
\* function of the key.
NewRandomDetMatrix(rows, cols, max, key) ==
    LET seed == KeySeed(key)
    IN  [i \in 1..rows |->
            [j \in 1..cols |-> (seed * ((i - 1) * cols + j) + i * j) % max]]

\* A client as NewDamgardDecMultiClient returns it; KeyShare is still nil.
NewDamgardDecMultiClient(idx, sec) ==
    [ Idx          |-> idx,
      ClientPubKey |-> ModExp(DamgardG, sec, DamgardP),
      ClientSecKey |-> sec,
      KeyShare     |-> <<>>,
      given        |-> <<>> ]  \* history: the pubKeys of the last SetKeyShare

\* The mutation of KeyShareStep that adds whatever the order of k and Idx.
KeyShareStepAlwaysAdd(share, add, k, idx) == MatAdd(share, add)

\* One round of SetKeyShare's loop for k # Idx: add below Idx, subtract above.
KeyShareStep(share, add, k, idx) ==
    IF k < idx THEN MatAdd(share, add) ELSE MatSub(share, add)

\* SetKeyShare's loop from k on (k counts from 0 as in the source).
RECURSIVE KeyShareLoop(_, _, _, _)
KeyShareLoop(c, pubKeys, k, share) ==
    IF k >= Len(pubKeys) THEN share
    ELSE IF k = c.Idx THEN KeyShareLoop(c, pubKeys, k + 1, share)
    ELSE
        LET sharedNum == ModExp(pubKeys[k + 1], c.ClientSecKey, DamgardP)
            add == NewRandomDetMatrix(NumClients, DamgardL, DamgardQ,
                                      SharedKeyFixed(sharedNum))
        IN  KeyShareLoop(c, pubKeys, k + 1,
                MatMod(KeyShareStep(share, add, k, c.Idx), DamgardQ))

\* The list in which pubKeys[k] is client k's ClientPubKey.
ClientPubKeys == [k \in 1..NumClients |-> dmc[k - 1].ClientPubKey]

\* The same keys, each at the place of its neighbour.
RotatedPubKeys == [k \in 1..NumClients |-> dmc[k % NumClients].ClientPubKey]

DmcInit ==
    \E secs \in [Clients -> 0..(DamgardQ - 1)] :
        dmc = [i \in Clients |-> NewDamgardDecMultiClient(i, secs[i])]

SetKeyShare(i, pubKeys) ==
    /\ dmc' = [dmc EXCEPT
                ![i].KeyShare =
                    KeyShareLoop(dmc[i], pubKeys, 0,
                        NewConstantMatrix(NumClients, DamgardL, 0)),
                ![i].given = pubKeys]
    /\ UNCHANGED <<auth, ks, ct, sent, res, lwe, srch>>

SetKeyShareAsAgreed == \E i \in Clients : SetKeyShare(i, ClientPubKeys)

SetKeyShareMisordered == \E i \in Clients : SetKeyShare(i, RotatedPubKeys)

InitDmc ==
    /\ DmcInit
    /\ auth = Idle /\ ks = Idle /\ ct = Idle /\ sent = Idle /\ res = Idle
    /\ lwe = Idle /\ srch = Idle

NextDmc == SetKeyShareAsAgreed \/ SetKeyShareMisordered

SpecDmc == InitDmc /\ [][NextDmc]_vars

\* Every client has set its share from the agreed list of public keys.
AllSharesSet ==
    \A i \in Clients : dmc[i].KeyShare # <<>> /\ dmc[i].given = ClientPubKeys

RECURSIVE SumOfShares(_)
SumOfShares(n) ==
    IF n = 0 THEN NewConstantMatrix(NumClients, DamgardL, 0)
    ELSE MatAdd(SumOfShares(n - 1), dmc[n - 1].KeyShare)

\* C10: once every client has called SetKeyShare with the list in which
\* pubKeys[k] is client k's public key, the entrywise sum of all the
\* clients' KeyShare matrices is the zero matrix modulo Q.
C10_KeySharesCancel ==
    AllSharesSet =>
        MatMod(SumOfShares(NumClients), DamgardQ)
            = NewConstantMatrix(NumClients, DamgardL, 0)

\* C10's case: all shares set from the agreed list, and not all of them zero.
C10_Witness ==
    /\ AllSharesSet
    /\ \E i \in Clients :
          dmc[i].KeyShare # NewConstantMatrix(NumClients, DamgardL, 0)

-----------------------------------------------------------------------------
(* Ring-LWE: NewRingLWE's parameter search.  The big.Float values (the      *)
(* sigmas, qFloat) and the float64 lattice-cost estimate are not computed:  *)
(* a value of an iteration is named by the iteration that computed it, and  *)
(* the outcome of the cost check of an iteration is an input.               *)

\* The exponents of the candidates N = 2^pow: for pow := 6; pow < 20; pow++.
FirstPow == 6

PowLimit == 20

\* The inputs l, boundX and boundY of the modelled calls range over 1..MaxL
\* and 1..MaxBound.
MaxL == 2

MaxBound == 2

\* The security parameters of the modelled calls: with 13 the loop over b
\* is empty (13 / 0.265 < 50), with 128 it runs to b = 483.
Secs == {13, 128}

RECURSIVE Pow2(_)
Pow2(e) == IF e = 0 THEN 1 ELSE 2 * Pow2(e - 1)

\* The variables of NewRingLWE before its loop; q, sigma2, sigma3 and n are
\* declared and not yet assigned.
SearchStart(sec, l, boundX, boundY) ==
    [ sec    |-> sec,
      l      |-> l,
      boundX |-> boundX,
      boundY |-> boundY,
      K      |-> boundX * boundY * (2 * l),
      pow    |-> FirstPow,
      n      |-> 0,
      q      |-> [of |-> 0],
      sigma2 |-> [of |-> 0],
      sigma3 |-> [of |-> 0],
      safe   |-> FALSE,
      marks  |-> <<>>,      \* history: the outcome of each cost check so far
      broken |-> {},        \* the pairs (b, m) with left < right for the candidate n
      pc     |-> "loop",
      ret    |-> [err |-> "pending"] ]

\* The largest b of the loop "for b := 50; b <= bb; b = b + 1" with
\* bb = sec / 0.265.
BLast(sec) == (1000 * sec) \div 265

\* The first m of the loop "for m := int(math.Max(1, b-n)); m < 3*n; m++".
MFirst(b, n) == IF b - n > 1 THEN b - n ELSE 1

\* The pair (b, m) is one the two loops of the cost check come to.
InGrid(b, m, n, sec) ==
    /\ 50 <= b /\ b <= BLast(sec)
    /\ MFirst(b, n) <= m /\ m < 3 * n

\* The cost check of a candidate n: safe unless the loops come to a pair
\* with left < right.  The floating-point test left < right is not
\* computed; broken is the set of pairs for which it holds.
CostCheck(n, sec, broken) == ~\E pr \in broken : InGrid(pr[1], pr[2], n, sec)

\* The pairs about which the modelled runs decide whether left < right:
\* those at the ends of the two loops' ranges and next to them.
Probes(n, sec) ==
    { <<b, m>> : b \in {49, 50, BLast(sec), BLast(sec) + 1},
                 m \in {0, 1, 3 * n - 1, 3 * n} }
      \union { <<n + 50, 49>>, <<n + 50, 50>> }

\* At most one pair of the probes has left < right.
BrokenSets(n, sec) == { {} } \union { {pr} : pr \in Probes(n, sec) }

SearchIterationNoBreak(s, isSafe) ==
    [s EXCEPT !.n = Pow2(s.pow),
              !.sigma2 = [of |-> Pow2(s.pow)],
              !.sigma3 = [of |-> Pow2(s.pow)],
              !.q = [of |-> Pow2(s.pow)],
              !.safe = isSafe,
              !.marks = Append(s.marks, isSafe),
              !.pow = s.pow + 1,
              !.pc = IF s.pow + 1 < PowLimit THEN "loop" ELSE "after"]

\* The body of the loop for the candidate s.pow, the cost check finding the
\* candidate safe or not, up to the break and the pow++.
SearchIteration(s, isSafe) ==
    LET n == Pow2(s.pow)
        computed == [s EXCEPT !.n = n,
                              !.sigma2 = [of |-> n],
                              !.sigma3 = [of |-> n],
                              !.q = [of |-> n],
                              !.safe = isSafe,
                              !.marks = Append(s.marks, isSafe)]
    IN  IF isSafe
        THEN [computed EXCEPT !.pc = "after"]
        ELSE [computed EXCEPT !.pow = s.pow + 1,
                              !.pc = IF s.pow + 1 < PowLimit THEN "loop" ELSE "after"]

\* What follows the loop: the random polynomial is drawn and the scheme is
\* returned with the values the last iteration left.
SearchReturn(s) ==
    [s EXCEPT !.pc = "done",
              !.ret = [ err    |-> "nil",
                        L      |-> s.l,
                        N      |-> s.n,
                        BoundX |-> s.boundX,
                        BoundY |-> s.boundY,
                        P      |-> s.K,
                        Q      |-> s.q,
                        Sigma2 |-> s.sigma2,
                        Sigma3 |-> s.sigma3 ]]

CandidateSafe ==
    /\ srch.pc = "loop"
    /\ \E broken \in BrokenSets(Pow2(srch.pow), srch.sec) :
          /\ CostCheck(Pow2(srch.pow), srch.sec, broken)
          /\ srch' = [SearchIteration(srch, TRUE) EXCEPT !.broken = broken]
    /\ UNCHANGED <<auth, ks, ct, sent, res, lwe, dmc>>

CandidateUnsafe ==
    /\ srch.pc = "loop"
    /\ \E broken \in BrokenSets(Pow2(srch.pow), srch.sec) :
          /\ ~CostCheck(Pow2(srch.pow), srch.sec, broken)
          /\ srch' = [SearchIteration(srch, FALSE) EXCEPT !.broken = broken]
    /\ UNCHANGED <<auth, ks, ct, sent, res, lwe, dmc>>

NewRingLWEReturns ==
    /\ srch.pc = "after"
    /\ srch' = SearchReturn(srch)
    /\ UNCHANGED <<auth, ks, ct, sent, res, lwe, dmc>>

InitSearch ==
    /\ \E sec \in Secs, l \in 1..MaxL, boundX \in 1..MaxBound, boundY \in 1..MaxBound :
          srch = SearchStart(sec, l, boundX, boundY)
    /\ auth = Idle /\ ks = Idle /\ ct = Idle /\ sent = Idle /\ res = Idle
    /\ lwe = Idle /\ dmc = Idle

NextSearch == CandidateSafe \/ CandidateUnsafe \/ NewRingLWEReturns

SpecSearch == InitSearch /\ [][NextSearch]_vars

\* The call has returned and no candidate passed the cost check.
SearchExhausted ==
    /\ srch.pc = "done"
    /\ Len(srch.marks) = PowLimit - FirstPow
    /\ \A i \in 1..Len(srch.marks) : ~srch.marks[i]

\* C7: when every candidate N = 2^6 .. 2^19 is marked unsafe, NewRingLWE
\* returns an error and no scheme.
C7_SearchFailureIsAnError == SearchExhausted => srch.ret.err # "nil"

\* Some candidate has been through the cost check.
Checked == Len(srch.marks) > 0

\* No pair (b, m) with b in [50, sec/0.265] and m in [max(1, b - N), 3N)
\* has left < right for the last candidate N.
NoPairBreaks ==
    \A pr \in srch.broken :
        ~(/\ 50 <= pr[1] /\ 265 * pr[1] <= 1000 * srch.sec
          /\ pr[2] >= (IF pr[1] - srch.n > 1 THEN pr[1] - srch.n ELSE 1)
          /\ pr[2] < 3 * srch.n)

\* C17: the search tries N = 2^pow for pow = 6, 7, ..., 19 in this order;
\* a candidate is marked unsafe exactly when some pair (b, m) of the grid
\* has left < right; the search goes on only past unsafe candidates, so that
\* a safe candidate at which it stops is the smallest N without such a pair;
\* and the scheme returned then has this N, P = 2 * L * Bx * By, and the Q,
\* sigma2 and sigma3 computed for this N.
C17_SmallestSafeCandidate ==
    /\ Len(srch.marks) <= PowLimit - FirstPow
    /\ Checked =>
          /\ srch.n = Pow2(FirstPow + Len(srch.marks) - 1)
          /\ srch.safe = NoPairBreaks
          /\ srch.marks[Len(srch.marks)] = srch.safe
          /\ \A i \in 1..(Len(srch.marks) - 1) : ~srch.marks[i]
    /\ (srch.pc = "done" /\ srch.safe) =>
          /\ srch.ret.err = "nil"
          /\ srch.ret.N = srch.n
          /\ srch.ret.P = 2 * srch.l * srch.boundX * srch.boundY
          /\ srch.ret.Q = [of |-> srch.ret.N]
          /\ srch.ret.Sigma2 = [of |-> srch.ret.N]
          /\ srch.ret.Sigma3 = [of |-> srch.ret.N]

\* The search returned the fourth candidate after three unsafe ones; for
\* the fourth a pair next to the grid, but not in it, has left < right.
C17_Witness ==
    /\ srch.pc = "done"
    /\ srch.safe
    /\ Len(srch.marks) = 4
    /\ srch.ret.N = 512
    /\ srch.broken # {}

-----------------------------------------------------------------------------
(* Ring-LWE: key generation, Encrypt and Decrypt, on a scaled instance of   *)
(* the parameters NewRingLWE returns.  The RNG is assumed not to fail.      *)

\* A scheme as NewRingLWE builds it: P = 2 * L * BoundX * BoundY, Q the
\* product of an integer (the integer part of qFloat) and P, A a vector of
\* N residues modulo Q.  N is a power of two.
RingLWEParams(l, n, boundX, boundY, qInt, a) ==
    [ L      |-> l,
      N      |-> n,
      BoundX |-> boundX,
      BoundY |-> boundY,
      P      |-> boundX * boundY * (2 * l),
      Q      |-> qInt * (boundX * boundY * (2 * l)),
      A      |-> a ]

\* The schemes of the modelled runs.
SchemeChoices ==
    { RingLWEParams(2, 2, 1, 1, 8, a) : a \in { <<3, 30>>, <<17, 1>> } }

\* The values a discrete Gaussian sampler returns in the modelled runs;
\* the distribution is centred at 0.
GaussianSupport == {-1, 0, 1}

\* The vectors and matrices data.NewRandomVector and data.NewRandomMatrix
\* return for a Gaussian sampler in the modelled runs.
SampledVectors(n) ==
    { [i \in 1..n |-> IF i % 2 = 1 THEN s ELSE 0 - s] : s \in GaussianSupport }

SampledMatrices(rows, cols) ==
    { [i \in 1..rows |-> IF i % 2 = 1 THEN v ELSE VecNeg(v)] :
        v \in SampledVectors(cols) }

\* Vector.CheckBound and Matrix.CheckBound: TRUE when an error is returned,
\* that is when some entry is larger than the bound in absolute value.
VecBoundExceeded(v, bound) == \E i \in 1..Len(v) : Abs(v[i]) > bound

MatBoundExceeded(m, bound) == \E i \in 1..Len(m) : VecBoundExceeded(m[i], bound)

\* Vector.MulAsPolyInRing: the product in Z[x]/(x^n + 1), not reduced.
MulAsPolyInRing(a, b) ==
    LET n == Len(a)
        term(k, i) ==
            IF i <= k THEN a[i] * b[k - i + 1]
            ELSE 0 - a[i] * b[n + k - i + 1]
    IN  [k \in 1..n |-> SeqSum([i \in 1..n |-> term(k, i)])]

\* center: t(x) = floor(x * q / p) mod q, entry by entry.
center(s, X) ==
    [i \in 1..Len(X) |->
        [j \in 1..Len(X[i]) |-> ((X[i][j] * s.Q) \div s.P) % s.Q]]

\* The mutation of RingLWEGeneratePublicKey that leaves out PK.Mod(Q).
RingLWEGeneratePublicKeyUnreduced(s, SK, E) ==
    IF ~CheckDims(SK, s.L, s.N)
    THEN [err |-> "ErrMalformedPubKey", val |-> <<>>]
    ELSE [err |-> "nil",
          val |-> [i \in 1..s.L |-> VecAdd(MulAsPolyInRing(SK[i], s.A), E[i])]]

\* GeneratePublicKey, E the noise matrix it samples.
RingLWEGeneratePublicKey(s, SK, E) ==
    IF ~CheckDims(SK, s.L, s.N)
    THEN [err |-> "ErrMalformedPubKey", val |-> <<>>]
    ELSE [err |-> "nil",
          val |-> MatMod([i \in 1..s.L |->
                            VecAdd(MulAsPolyInRing(SK[i], s.A), E[i])], s.Q)]

\* DeriveKey.
RingLWEDeriveKey(s, y, SK) ==
    IF VecBoundExceeded(y, s.BoundY)
    THEN [err |-> "BoundExceeded", val |-> <<>>]
    ELSE IF ~CheckDims(SK, s.L, s.N)
    THEN [err |-> "ErrMalformedSecKey", val |-> <<>>]
    ELSE IF Len(y) # s.L
    THEN [err |-> "ErrMalformedInput", val |-> <<>>]
    ELSE [err |-> "nil", val |-> VecMod(MulVec(Transpose(SK), y), s.Q)]

\* What Encrypt computes once its checks have passed; r, E and e are the
\* vector, the matrix and the vector it samples.
RingLWECipher(s, X, PK, r, E, e) ==
    LET CT0 == MatMod([i \in 1..s.L |->
                          VecAdd(MulAsPolyInRing(PK[i], r), E[i])], s.Q)
        T == center(s, X)
        ct1 == VecMod(VecAdd(MulAsPolyInRing(s.A, r), e), s.Q)
    IN  Append(MatMod(MatAdd(CT0, T), s.Q), ct1)

\* The mutation of RingLWEEncrypt that leaves out X.CheckBound.
RingLWEEncryptUnchecked(s, X, PK, r, E, e) ==
    IF ~CheckDims(PK, s.L, s.N)
    THEN [err |-> "ErrMalformedPubKey", val |-> <<>>]
    ELSE IF ~CheckDims(X, s.L, s.N)
    THEN [err |-> "ErrMalformedInput", val |-> <<>>]
    ELSE [err |-> "nil", val |-> RingLWECipher(s, X, PK, r, E, e)]

\* Encrypt.
RingLWEEncrypt(s, X, PK, r, E, e) ==
    IF MatBoundExceeded(X, s.BoundX)
    THEN [err |-> "BoundExceeded", val |-> <<>>]
    ELSE IF ~CheckDims(PK, s.L, s.N)
    THEN [err |-> "ErrMalformedPubKey", val |-> <<>>]
    ELSE IF ~CheckDims(X, s.L, s.N)
    THEN [err |-> "ErrMalformedInput", val |-> <<>>]
    ELSE [err |-> "nil", val |-> RingLWECipher(s, X, PK, r, E, e)]

\* The function Decrypt applies to each coordinate of d.
DecryptRound(s, x) ==
    LET halfQ == s.Q \div 2
        lifted == IF x > halfQ THEN x - s.Q ELSE x
    IN  (lifted * s.P + halfQ) \div s.Q

\* Decrypt.
RingLWEDecrypt(s, CT, skY, y) ==
    IF VecBoundExceeded(y, s.BoundY)
    THEN [err |-> "BoundExceeded", val |-> <<>>]
    ELSE IF Len(skY) # s.N
    THEN [err |-> "ErrMalformedDecKey", val |-> <<>>]
    ELSE IF Len(y) # s.L
    THEN [err |-> "ErrMalformedInput", val |-> <<>>]
    ELSE IF ~CheckDims(CT, s.L + 1, s.N)
    THEN [err |-> "ErrMalformedCipher", val |-> <<>>]
    ELSE
        LET CT0 == SubSeq(CT, 1, s.L)
            ct1 == CT[s.L + 1]
            CT0TransMulY == VecMod(MulVec(Transpose(CT0), y), s.Q)
            ct1MulSkY == VecNeg(MulAsPolyInRing(ct1, skY))
            d == VecMod(VecAdd(CT0TransMulY, ct1MulSkY), s.Q)
        IN  [err |-> "nil", val |-> [j \in 1..Len(d) |-> DecryptRound(s, d[j])]]

\* The plaintext matrices of the modelled calls of Encrypt: every entry c,
\* entries c and -c in turn, a single entry just outside the bound, and a
\* matrix that lacks a row.
PlainChoices(s) ==
    LET b == s.BoundX
        rows == 1..s.L
        cols == 1..s.N
    IN  { [i \in rows |-> [j \in cols |-> c]] : c \in (0 - (b + 1))..(b + 1) }
        \cup { [i \in rows |-> [j \in cols |-> IF (i + j) % 2 = 0 THEN c ELSE 0 - c]] :
                 c \in {b, b + 1} }
        \cup { [i \in rows |-> [j \in cols |-> IF i = 1 /\ j = 1 THEN c ELSE 0]] :
                 c \in {b + 1, 0 - (b + 1)} }
        \cup { [i \in 1..(s.L - 1) |-> [j \in cols |-> b]] }

\* The vectors y of the modelled calls of DeriveKey: every entry c, entries
\* c and -c in turn, and a vector that lacks an entry.
QueryChoices(s) ==
    LET b == s.BoundY
    IN  { [i \in 1..s.L |-> c] : c \in (0 - (b + 1))..(b + 1) }
        \cup { [i \in 1..s.L |-> IF i % 2 = 1 THEN b ELSE 0 - b] }
        \cup { [i \in 1..(s.L - 1) |-> b] }

\* A scheme before any key is generated.  "pending" marks an operation that
\* has not been called; E1, r, E and e record what the samplers returned.
LweStart(s) ==
    [ s |-> s,
      SK |-> <<>>, PK |-> <<>>, pkErr |-> "pending", E1 |-> <<>>,
      y |-> <<>>, skY |-> <<>>, deriveErr |-> "pending",
      X |-> <<>>, CT |-> <<>>, encryptErr |-> "pending",
      r |-> <<>>, E |-> <<>>, e |-> <<>>,
      out |-> <<>>, decryptErr |-> "pending" ]

LweOnly == UNCHANGED <<auth, ks, ct, sent, res, srch, dmc>>

\* GenerateSecretKey: the matrix the sampler returns, as it is.
GenerateSecretKey ==
    /\ lwe.SK = <<>>
    /\ \E SK \in SampledMatrices(lwe.s.L, lwe.s.N) : lwe' = [lwe EXCEPT !.SK = SK]
    /\ LweOnly

GeneratePublicKey ==
    /\ lwe.SK # <<>>
    /\ lwe.pkErr = "pending"
    /\ \E E \in SampledMatrices(lwe.s.L, lwe.s.N) :
          LET got == RingLWEGeneratePublicKey(lwe.s, lwe.SK, E)
          IN  lwe' = [lwe EXCEPT !.PK = got.val, !.pkErr = got.err, !.E1 = E]
    /\ LweOnly

DeriveKey ==
    /\ lwe.SK # <<>>
    /\ lwe.deriveErr = "pending"
    /\ \E y \in QueryChoices(lwe.s) :
          LET got == RingLWEDeriveKey(lwe.s, y, lwe.SK)
          IN  lwe' = [lwe EXCEPT !.y = y, !.skY = got.val, !.deriveErr = got.err]
    /\ LweOnly

LweEncrypt ==
    /\ lwe.pkErr = "nil"
    /\ lwe.encryptErr = "pending"
    /\ \E X \in PlainChoices(lwe.s),
          r \in SampledVectors(lwe.s.N),
          E \in SampledMatrices(lwe.s.L, lwe.s.N),
          e \in SampledVectors(lwe.s.N) :
          LET got == RingLWEEncrypt(lwe.s, X, lwe.PK, r, E, e)
          IN  lwe' = [lwe EXCEPT !.X = X, !.CT = got.val, !.encryptErr = got.err,
                                 !.r = r, !.E = E, !.e = e]
    /\ LweOnly

LweDecrypt ==
    /\ lwe.encryptErr = "nil"
    /\ lwe.deriveErr = "nil"
    /\ lwe.decryptErr = "pending"
    /\ LET got == RingLWEDecrypt(lwe.s, lwe.CT, lwe.skY, lwe.y)
       IN  lwe' = [lwe EXCEPT !.out = got.val, !.decryptErr = got.err]
    /\ LweOnly

InitLwe ==
    /\ \E s \in SchemeChoices : lwe = LweStart(s)
    /\ auth = Idle /\ ks = Idle /\ ct = Idle /\ sent = Idle /\ res = Idle
    /\ srch = Idle /\ dmc = Idle

NextLwe ==
    \/ GenerateSecretKey
    \/ GeneratePublicKey
    \/ DeriveKey
    \/ LweEncrypt
    \/ LweDecrypt

SpecLwe == InitLwe /\ [][NextLwe]_vars

\* The inner products of X's columns with y, in Z.
InnerProducts == MulVec(Transpose(lwe.X), lwe.y)

\* The noise the decryption of lwe.CT with lwe.skY has accumulated, in Z:
\* sum_i y_i (E1_i * r + E_i) - e * sum_i y_i SK_i, products in the ring.
AccumulatedNoise ==
    LET s == lwe.s
        perRow == [i \in 1..s.L |-> VecAdd(MulAsPolyInRing(lwe.E1[i], lwe.r), lwe.E[i])]
        masked == MulVec(Transpose(perRow), lwe.y)
        keyed == MulAsPolyInRing(lwe.e, MulVec(Transpose(lwe.SK), lwe.y))
    IN  VecSub(masked, keyed)

NoiseWithinBound ==
    \A j \in 1..lwe.s.N : 2 * lwe.s.P * Abs(AccumulatedNoise[j]) < lwe.s.Q

\* C6: whenever the accumulated noise is within Q/(2P), Decrypt returns the
\* inner products of X's columns with y as integers, the extreme values
\* +L*BoundX*BoundY and -L*BoundX*BoundY included.
C6_RoundTrip ==
    (lwe.decryptErr = "nil" /\ NoiseWithinBound) => lwe.out = InnerProducts

\* C6 away from the extremes: the same with every inner product strictly
\* between -P/2 and P/2.
C6_RoundTripInside ==
    (/\ lwe.decryptErr = "nil"
     /\ NoiseWithinBound
     /\ \A j \in 1..lwe.s.N : 2 * Abs(InnerProducts[j]) < lwe.s.P)
        => lwe.out = InnerProducts

\* C8: Encrypt returns BoundExceeded and no ciphertext for a matrix with an
\* entry larger than BoundX in absolute value, and a ciphertext for an L x N
\* matrix whose entries are all within BoundX, the entries BoundX and
\* -BoundX included.
C8_EncryptBoundCheck ==
    lwe.encryptErr # "pending" =>
        IF \E i \in 1..Len(lwe.X) : \E j \in 1..Len(lwe.X[i]) :
              Abs(lwe.X[i][j]) >= lwe.s.BoundX + 1
        THEN lwe.encryptErr = "BoundExceeded" /\ lwe.CT = <<>>
        ELSE CheckDims(lwe.X, lwe.s.L, lwe.s.N) =>
                /\ lwe.encryptErr = "nil"
                /\ CheckDims(lwe.CT, lwe.s.L + 1, lwe.s.N)

\* C8's case: Encrypt accepted a matrix with entries BoundX and -BoundX.
C8_Witness ==
    /\ lwe.encryptErr = "nil"
    /\ \E i \in 1..Len(lwe.X) : \E j \in 1..Len(lwe.X[i]) : lwe.X[i][j] = lwe.s.BoundX
    /\ \E i \in 1..Len(lwe.X) : \E j \in 1..Len(lwe.X[i]) : lwe.X[i][j] = 0 - lwe.s.BoundX

Residues(m) == \A i \in 1..Len(m) : \A j \in 1..Len(m[i]) : m[i][j] \in 0..(lwe.s.Q - 1)

\* C9 as stated: every entry of the secret key, the public key, the derived
\* key and the ciphertext lies in [0, Q).
C9_AllCanonical ==
    /\ Residues(lwe.SK)
    /\ Residues(lwe.PK)
    /\ Residues(<<lwe.skY>>)
    /\ Residues(lwe.CT)

\* C9 amended: every entry of the public key, the derived key and the
\* ciphertext lies in [0, Q).
C9_ReturnedResidues ==
    /\ Residues(lwe.PK)
    /\ Residues(<<lwe.skY>>)
    /\ Residues(lwe.CT)

\* C9's case: a public key, a derived key and a ciphertext computed from a
\* secret key with a negative entry.
C9_Witness ==
    /\ lwe.pkErr = "nil" /\ lwe.deriveErr = "nil" /\ lwe.encryptErr = "nil"
    /\ \E i \in 1..Len(lwe.SK) : \E j \in 1..Len(lwe.SK[i]) : lwe.SK[i][j] < 0

(***************************************************************************)
(* MA-ABE (abe/ma-abe.go).  The groups G1, G2 and GT of bn256 have prime   *)
(* order P; an element is modelled by its discrete logarithm to the base   *)
(* g1, g2 or gt = e(g1, g2), so that the group operation (Add) is addition *)
(* mod P, ScalarMult is multiplication mod P and Pair multiplies the       *)
(* logarithms.  A Go map is a function whose DOMAIN is the set of keys     *)
(* present; a lookup of an absent key gives nil.                           *)
(***************************************************************************)

\* NewMAABE: P stands for bn256.Order, scaled to a small prime.
P == 3

g1 == 1

g2 == 1

gt == 1

GAdd(a, b) == (a + b) % P

GNeg(a) == (0 - a) % P

ScalarMult(a, k) == (a * k) % P

Pair(a, b) == (a * b) % P

Range(seq) == { seq[i] : i \in 1..Len(seq) }

LastIndex(seq, x) == CHOOSE i \in 1..Len(seq) : seq[i] = x /\ \A j \in (i + 1)..Len(seq) : seq[j] # x

\* The map built by "for i, at := range keys { m[at] = vals[i] }".
MapOf(keys, vals) == [at \in Range(keys) |-> vals[LastIndex(keys, at)]]

\* The global identifiers of the modelled users and their images under
\* bn256.HashG1, as logarithms to the base g1.
Gids == {"u1", "u2"}

HashG1(gid) == IF gid = "u1" THEN 1 ELSE 2

\* What a run of the uniform sampler over Z_P gives for a vector of length
\* n: the modelled runs are x, x+1, x+2, ... mod P for every start x.
UniformVectors(n) == { [i \in 1..n |-> (x + i - 1) % P] : x \in 0..(P - 1) }

NewMAABEAuth(id, attribs, alphaI, yI) ==
    IF Len(attribs) = 0 THEN [err |-> "empty set of authority attributes", val |-> <<>>]
    ELSE IF id = "" THEN [err |-> "empty id string", val |-> <<>>]
    ELSE LET alpha == MapOf(attribs, alphaI)
             y == MapOf(attribs, yI)
         IN  [err |-> "nil",
              val |-> [ID |-> id,
                       Pk |-> [Attribs |-> attribs,
                               EggToAlpha |-> [at \in Range(attribs) |-> ScalarMult(gt, alpha[at])],
                               GToY |-> [at \in Range(attribs) |-> ScalarMult(g2, y[at])]],
                       Sk |-> [Attribs |-> attribs, Alpha |-> alpha, Y |-> y],
                       Epoch |-> [at \in Range(attribs) |-> 0]]]

\* PubKeys: a copy of the authority's public key.
PubKeys(a) ==
    [Attribs |-> a.Pk.Attribs,
     EggToAlpha |-> [at \in DOMAIN a.Pk.EggToAlpha |-> a.Pk.EggToAlpha[at]],
     GToY |-> [at \in DOMAIN a.Pk.GToY |-> a.Pk.GToY[at]]]

RegenerateKeyCreates(a, attrib, skVals) ==
    IF attrib = "" THEN [err |-> "attribute cannot be an empty string", val |-> a]
    ELSE [err |-> "nil",
          val |-> [a EXCEPT
                     !.Sk.Alpha = [x \in (DOMAIN @) \union {attrib} |->
                                     IF x = attrib THEN skVals[1] ELSE @[x]],
                     !.Sk.Y = [x \in (DOMAIN @) \union {attrib} |->
                                 IF x = attrib THEN skVals[2] ELSE @[x]],
                     !.Pk.EggToAlpha = [x \in (DOMAIN @) \union {attrib} |->
                                          IF x = attrib THEN ScalarMult(gt, skVals[1]) ELSE @[x]],
                     !.Pk.GToY = [x \in (DOMAIN @) \union {attrib} |->
                                    IF x = attrib THEN ScalarMult(g2, skVals[2]) ELSE @[x]],
                     !.Epoch = [x \in (DOMAIN @) \union {attrib} |->
                                  IF x = attrib THEN 1 ELSE @[x]]]]

\* RegenerateKey(attrib) with the sampled pair skVals.  Epoch counts the
\* pairs the attribute has had; the code keeps no such counter.
RegenerateKey(a, attrib, skVals) ==
    IF attrib = "" THEN [err |-> "attribute cannot be an empty string", val |-> a]
    ELSE IF attrib \notin DOMAIN a.Sk.Alpha \/ attrib \notin DOMAIN a.Sk.Y
    THEN [err |-> "attribute does not exist yet", val |-> a]
    ELSE LET alpha == skVals[1]
             y == skVals[2]
         IN  [err |-> "nil",
              val |-> [a EXCEPT !.Sk.Alpha[attrib] = alpha,
                                !.Sk.Y[attrib] = y,
                                !.Pk.EggToAlpha[attrib] = ScalarMult(gt, alpha),
                                !.Pk.GToY[attrib] = ScalarMult(g2, y),
                                !.Epoch[attrib] = @ + 1]]

AttribKeyNoHash(alpha, y, hash) == GAdd(ScalarMult(g1, alpha), ScalarMult(g1, y))

\* GenerateAttribKeys: the key g1^alpha * H(gid)^y of one attribute.
AttribKey(alpha, y, hash) == GAdd(ScalarMult(g1, alpha), ScalarMult(hash, y))

GenerateAttribKeysPartial(a, gid, attribs) ==
    IF gid = "" THEN [err |-> "GID cannot be empty", val |-> <<>>]
    ELSE IF Len(attribs) = 0 THEN [err |-> "attribute cannot be empty", val |-> <<>>]
    ELSE LET held == SelectSeq(attribs, LAMBDA at : at \in DOMAIN a.Sk.Alpha)
         IN  [err |-> "nil",
              val |-> [i \in 1..Len(held) |->
                         [Gid |-> gid,
                          Attrib |-> held[i],
                          Key |-> AttribKey(a.Sk.Alpha[held[i]], a.Sk.Y[held[i]], HashG1(gid)),
                          Issued |-> a.Epoch[held[i]]]]]

\* GenerateAttribKeys.  Issued records the pair the key was made from.
GenerateAttribKeys(a, gid, attribs) ==
    IF gid = "" THEN [err |-> "GID cannot be empty", val |-> <<>>]
    ELSE IF Len(attribs) = 0 THEN [err |-> "attribute cannot be empty", val |-> <<>>]
    ELSE IF \E i \in 1..Len(attribs) :
               attribs[i] \notin DOMAIN a.Sk.Alpha \/ attribs[i] \notin DOMAIN a.Sk.Y
    THEN [err |-> "attribute not found in secret key", val |-> <<>>]
    ELSE [err |-> "nil",
          val |-> [i \in 1..Len(attribs) |->
                     [Gid |-> gid,
                      Attrib |-> attribs[i],
                      Key |-> AttribKey(a.Sk.Alpha[attribs[i]], a.Sk.Y[attribs[i]], HashG1(gid)),
                      Issued |-> a.Epoch[attribs[i]]]]]

\* aes.BlockSize, scaled.
BlockSize == 2

\* The number of values of a byte, scaled.
ByteMod == 5

\* sha256.Sum256([]byte(symKey.String())): distinct elements of GT give
\* distinct AES keys.
KeyCBC(symKey) == symKey + 1

\* The message with its PKCS7 padding, as Encrypt appends it.
PKCS7Pad(msgByte) ==
    LET padLen == BlockSize - (Len(msgByte) % BlockSize)
    IN  msgByte \o [i \in 1..padLen |-> padLen % ByteMod]

\* CryptBlocks of a CBC encrypter.  The block cipher adds the key to every
\* byte and the chaining adds the previous ciphertext block, mod ByteMod.
RECURSIVE CBCEncrypt(_, _, _, _)
CBCEncrypt(key, iv, src, dst) ==
    IF Len(dst) = Len(src) THEN dst
    ELSE LET i == Len(dst) + 1
             prev == IF i <= BlockSize THEN iv[i] ELSE dst[i - BlockSize]
         IN  CBCEncrypt(key, iv, src, Append(dst, (src[i] + prev + key) % ByteMod))

\* CryptBlocks of the CBC decrypter of the same cipher.
CBCDecrypt(key, iv, src) ==
    [i \in 1..Len(src) |->
        LET prev == IF i <= BlockSize THEN iv[i] ELSE src[i - BlockSize]
        IN  (src[i] - key - prev) % ByteMod]

TmpLambdaNoNeg(lambda) == ScalarMult(gt, Abs(lambda))

\* Encrypt: gt^lambda, by the sign of lambda.
TmpLambda(lambda) ==
    IF lambda >= 0 THEN ScalarMult(gt, lambda) ELSE ScalarMult(GNeg(gt), Abs(lambda))

\* Encrypt: g2^omega, by the sign of omega.
TmpOmega(omega) ==
    IF omega >= 0 THEN ScalarMult(g2, omega) ELSE ScalarMult(GNeg(g2), Abs(omega))

\* Encrypt: "for _, pk := range pks { if pk.EggToAlpha[at] != nil".
HasPK(pks, at) == \E k \in 1..Len(pks) : at \in DOMAIN pks[k].EggToAlpha

FoundPK(pks, at) ==
    pks[CHOOSE k \in 1..Len(pks) :
            /\ at \in DOMAIN pks[k].EggToAlpha
            /\ \A j \in 1..(k - 1) : at \notin DOMAIN pks[j].EggToAlpha]

NoCipher == [C0 |-> 0, C1x |-> <<>>, C2x |-> <<>>, C3x |-> <<>>,
             Msp |-> [Mat |-> <<>>, RowToAttrib |-> <<>>], SymEnc |-> <<>>, Iv |-> <<>>]

RepeatsAttribIgnored(msp) == FALSE

\* Encrypt: some attribute labels more than one row of the MSP.
RepeatsAttrib(msp) ==
    \E i, j \in 1..Len(msp.RowToAttrib) : i < j /\ msp.RowToAttrib[i] = msp.RowToAttrib[j]

\* Encrypt(msg, msp, pks) with the values its sources of randomness gave:
\* symKey and iv, and the vectors v, w and rI of the uniform sampler.
MAABEEncrypt(msg, msp, pks, symKey, iv, v, wI, rI) ==
    IF Len(msp.Mat) = 0 \/ Len(msp.Mat[1]) = 0
    THEN [err |-> "empty msp matrix", val |-> NoCipher]
    ELSE IF RepeatsAttrib(msp)
    THEN [err |-> "some attributes correspond to multiple rows", val |-> NoCipher]
    ELSE IF Len(msg) = 0
    THEN [err |-> "message cannot be empty", val |-> NoCipher]
    ELSE LET symEnc == CBCEncrypt(KeyCBC(symKey), iv, PKCS7Pad(msg), <<>>)
             sec == v[1]
             lambda == MapOf(msp.RowToAttrib, MulVec(msp.Mat, v))
             w == [wI EXCEPT ![1] = 0]
             omega == MapOf(msp.RowToAttrib, MulVec(msp.Mat, w))
             c0 == GAdd(symKey, ScalarMult(gt, sec))
             r == MapOf(msp.RowToAttrib, rI)
             ats == Range(msp.RowToAttrib)
         IN  IF \E at \in ats : ~HasPK(pks, at)
             THEN [err |-> "attribute not found in any pubkey", val |-> NoCipher]
             ELSE [err |-> "nil",
                   val |-> [C0 |-> c0,
                            C1x |-> [at \in ats |->
                                       GAdd(TmpLambda(lambda[at]),
                                            ScalarMult(FoundPK(pks, at).EggToAlpha[at], r[at]))],
                            C2x |-> [at \in ats |-> ScalarMult(g2, r[at])],
                            C3x |-> [at \in ats |->
                                       GAdd(ScalarMult(FoundPK(pks, at).GToY[at], r[at]),
                                            TmpOmega(omega[at]))],
                            Msp |-> msp,
                            SymEnc |-> symEnc,
                            Iv |-> iv]]

GidCheckSkipped(keys) == FALSE

\* Decrypt: some key's Gid differs from the first key's.
GidCheck(keys) == \E i \in 1..Len(keys) : keys[i].Gid # keys[1].Gid

AToKFirstKey(keys) == MapOf(<<keys[1].Attrib>>, <<keys[1]>>)

\* Decrypt: aToK, the last key of each attribute.
AToK(keys) == MapOf([i \in 1..Len(keys) |-> keys[i].Attrib], keys)

\* Decrypt: the indices of the rows whose attribute has a key, in order.
GoodRows(msp, keys) ==
    SelectSeq([i \in 1..Len(msp.RowToAttrib) |-> i],
              LAMBDA i : msp.RowToAttrib[i] \in DOMAIN AToK(keys))

GoodMat(msp, keys) == [k \in 1..Len(GoodRows(msp, keys)) |-> msp.Mat[GoodRows(msp, keys)[k]]]

GoodAttribs(msp, keys) == [k \in 1..Len(GoodRows(msp, keys)) |-> msp.RowToAttrib[GoodRows(msp, keys)[k]]]

\* Decrypt: the vector (1, 0, ..., 0) of the length of goodMat's rows.
One(goodCols) == [NewConstantVector(goodCols, 0) EXCEPT ![1] = 1]

\* data.GaussianEliminationSolver(mat, vec, p): a solution x of
\* mat * x = vec over Z_p, or an error when there is none.  Which solution
\* it returns when there are several is left open.
GaussianEliminationSolver(mat, vec, p) ==
    LET n == Cols(mat)
        sols == { x \in [1..n -> 0..(p - 1)] :
                    \A i \in 1..Len(mat) : (Dot(mat[i], x) - vec[i]) % p = 0 }
    IN  IF sols = {} THEN { [err |-> "no solution", val |-> <<>>] }
        ELSE { [err |-> "nil", val |-> x] : x \in sols }

NoPlain(e) == [err |-> e, out |-> <<>>, symKey |-> -1, padLen |-> -1, c |-> <<>>]

\* Decrypt: does the call get as far as the solver.  With no good row
\* goodCols is 0 and "one[0] = 1" indexes an empty vector.
ReachesSolver(cipher, keys) ==
    /\ Len(keys) # 0
    /\ ~GidCheck(keys)
    /\ Cols(GoodMat(cipher.Msp, keys)) # 0

SolverCall(cipher, keys) ==
    IF ReachesSolver(cipher, keys)
    THEN GaussianEliminationSolver(Transpose(GoodMat(cipher.Msp, keys)),
                                   One(Cols(GoodMat(cipher.Msp, keys))), P)
    ELSE { [err |-> "not called", val |-> <<>>] }

\* Decrypt: e(g,g)^lambda of one attribute.
EggLambda(cipher, key, hash, at) ==
    GAdd(GAdd(cipher.C1x[at], Pair(hash, cipher.C3x[at])), GNeg(Pair(key, cipher.C2x[at])))

\* Decrypt: the term an attribute adds to eggs, by the sign of cx.
EggsTerm(egg, cx) ==
    IF cx > 0 THEN ScalarMult(egg, cx)
    ELSE IF cx < 0 THEN ScalarMult(GNeg(egg), Abs(cx))
    ELSE 0

\* Decrypt(ct, keys), sol being what the solver returned.  symKey, padLen
\* and c report the intermediate values of the call.
MAABEDecrypt(cipher, keys, sol) ==
    IF Len(keys) = 0 THEN NoPlain("empty set of attribute keys")
    ELSE IF GidCheck(keys) THEN NoPlain("not all GIDs are the same")
    ELSE LET hash == HashG1(keys[1].Gid)
             aToK == AToK(keys)
             goodMat == GoodMat(cipher.Msp, keys)
             goodAttribs == GoodAttribs(cipher.Msp, keys)
         IN  IF Cols(goodMat) = 0 THEN NoPlain("panic: index out of range")
             ELSE IF sol.err # "nil" THEN NoPlain(sol.err)
             ELSE IF \E k \in 1..Len(goodAttribs) :
                        \/ goodAttribs[k] \notin DOMAIN cipher.C1x
                        \/ goodAttribs[k] \notin DOMAIN cipher.C2x
                        \/ goodAttribs[k] \notin DOMAIN cipher.C3x
             THEN NoPlain("attribute not in ciphertext dicts")
             ELSE LET cx == MapOf(goodAttribs, sol.val)
                      terms == [k \in 1..Len(goodAttribs) |->
                                  EggsTerm(EggLambda(cipher, aToK[goodAttribs[k]].Key, hash,
                                                     goodAttribs[k]),
                                           cx[goodAttribs[k]])]
                      eggs == SeqSum(terms) % P
                      symKey == GAdd(cipher.C0, GNeg(eggs))
                      msgPad == CBCDecrypt(KeyCBC(symKey), cipher.Iv, cipher.SymEnc)
                      padLen == msgPad[Len(msgPad)]
                  IN  IF Len(msgPad) - padLen < 0
                      THEN [NoPlain("failed to decrypt") EXCEPT
                               !.symKey = symKey, !.padLen = padLen, !.c = sol.val]
                      ELSE [err |-> "nil",
                            out |-> SubSeq(msgPad, 1, Len(msgPad) - padLen),
                            symKey |-> symKey,
                            padLen |-> padLen,
                            c |-> sol.val]

\* The modelled deployment: two authorities, one attribute each.
Authorities == {"auth1", "auth2"}

AuthAttribs(id) == IF id = "auth1" THEN <<"a">> ELSE <<"b">>

\* The attribute names callers pass; no authority holds "z".
AttribNames == {"a", "b", "z"}

\* The policies of the modelled calls of Encrypt: a, a AND b, a OR b, and
\* an MSP of a OR a, whose two rows have the same attribute.
Policies ==
    { [Mat |-> <<<<1>>>>, RowToAttrib |-> <<"a">>],
      [Mat |-> <<<<1, 1>>, <<0, -1>>>>, RowToAttrib |-> <<"a", "b">>],
      [Mat |-> <<<<1>>, <<1>>>>, RowToAttrib |-> <<"a", "b">>],
      [Mat |-> <<<<1>>, <<1>>>>, RowToAttrib |-> <<"a", "a">>] }

\* The messages of the modelled calls of Encrypt, as byte strings.
Messages == { <<>>, <<1>>, <<3, 4>> }

\* The initialization vectors the modelled calls of Encrypt draw.
IVs == { <<1, 3>> }

\* The session keys bn256.RandomGT gives the modelled calls of Encrypt.
SymKeys == { P - 1 }

\* The runs of the sampler from which NewMAABEAuth takes the pairs of the
\* two authorities.
AuthDraws == { d \in UniformVectors(4) : d[1] = 1 }

\* The number of keys the user's bag holds at most.
MaxKeys == 2

\* The number of calls of RegenerateKey in a run.
MaxRotations == 1

\* The authority that holds an attribute.
Owner(at) == IF at = "a" THEN "auth1" ELSE "auth2"

\* The calls of RegenerateKey that replaced a pair so far.
Rotations == auth[Owner("a")].Epoch["a"] + auth[Owner("b")].Epoch["b"]

\* asked is what the last call of Encrypt was given, also when it failed.
NotAsked == [msg |-> <<>>, msp |-> [Mat |-> <<>>, RowToAttrib |-> <<>>]]

NotSent ==
    [msg |-> <<>>, symKey |-> -1, pks |-> <<>>, Epoch |-> <<>>, r |-> <<>>,
     asked |-> NotAsked]

AbeOnly == UNCHANGED <<lwe, srch, dmc>>

\* The four values NewMAABEAuth draws for the two authorities are one run
\* of the sampler.
Init ==
    /\ \E d \in AuthDraws :
          auth = [id \in Authorities |->
                    IF id = "auth1"
                    THEN NewMAABEAuth(id, AuthAttribs(id), <<d[1]>>, <<d[2]>>).val
                    ELSE NewMAABEAuth(id, AuthAttribs(id), <<d[3]>>, <<d[4]>>).val]
    /\ ks = <<>>
    /\ ct = [err |-> "pending", val |-> NoCipher]
    /\ sent = NotSent
    /\ res = NoPlain("pending")
    /\ lwe = Idle /\ srch = Idle /\ dmc = Idle

\* An authority regenerates the pair of an attribute.
Rotate ==
    /\ res.err = "pending"
    /\ Rotations < MaxRotations
    /\ \E id \in Authorities, attrib \in AttribNames, skVals \in UniformVectors(2) :
          auth' = [auth EXCEPT ![id] = RegenerateKey(auth[id], attrib, skVals).val]
    /\ UNCHANGED <<ks, ct, sent, res>>
    /\ AbeOnly

\* An authority issues keys to a user, who adds them to the bag.
Issue ==
    /\ res.err = "pending"
    /\ Len(ks) < MaxKeys
    /\ \E id \in Authorities, gid \in Gids, attrib \in AttribNames :
          LET got == GenerateAttribKeys(auth[id], gid, <<attrib>>)
          IN  ks' = IF got.err = "nil" THEN ks \o got.val ELSE ks
    /\ UNCHANGED <<auth, ct, sent, res>>
    /\ AbeOnly

\* A sender fetches the authorities' public keys and encrypts.  The vectors
\* v, w and rI are consecutive parts of one run of the call's sampler.
Encrypt ==
    /\ res.err = "pending"
    /\ ct.err = "pending"
    /\ \E msg \in Messages, msp \in Policies, symKey \in SymKeys, iv \in IVs :
       \E d \in UniformVectors(2 * Cols(msp.Mat) + Rows(msp.Mat)) :
          LET v == SubSeq(d, 1, Cols(msp.Mat))
              wI == SubSeq(d, Cols(msp.Mat) + 1, 2 * Cols(msp.Mat))
              rI == SubSeq(d, 2 * Cols(msp.Mat) + 1, Len(d))
              pks == <<PubKeys(auth["auth1"]), PubKeys(auth["auth2"])>>
              got == MAABEEncrypt(msg, msp, pks, symKey, iv, v, wI, rI)
          IN  /\ ct' = got
              /\ sent' = IF got.err # "nil"
                         THEN [NotSent EXCEPT !.asked = [msg |-> msg, msp |-> msp]]
                         ELSE [msg |-> msg,
                               symKey |-> symKey,
                               pks |-> [at \in Range(msp.RowToAttrib) |-> FoundPK(pks, at)],
                               Epoch |-> [at \in Range(msp.RowToAttrib) |->
                                            auth[Owner(at)].Epoch[at]],
                               r |-> MapOf(msp.RowToAttrib, rI),
                               asked |-> [msg |-> msg, msp |-> msp]]
    /\ UNCHANGED <<auth, ks, res>>
    /\ AbeOnly

\* The user decrypts the ciphertext with the bag.
Decrypt ==
    /\ res.err = "pending"
    /\ ct.err = "nil"
    /\ \E sol \in SolverCall(ct.val, ks) : res' = MAABEDecrypt(ct.val, ks, sol)
    /\ UNCHANGED <<auth, ks, ct, sent>>
    /\ AbeOnly

Next ==
    \/ Rotate
    \/ Issue
    \/ Encrypt
    \/ Decrypt

Spec == Init /\ [][Next]_vars

Decrypted == res.err # "pending"

PolicyAttribs == Range(ct.val.Msp.RowToAttrib)

SingleGid == Len(ks) # 0 /\ \A i \in 1..Len(ks) : ks[i].Gid = ks[1].Gid

MixedGids == \E i, j \in 1..Len(ks) : ks[i].Gid # ks[j].Gid

\* Every key of the bag for an attribute of the policy was issued from the
\* pair whose public half the ciphertext was made with.
KeysOfCipherPairs ==
    \A i \in 1..Len(ks) :
        ks[i].Attrib \in PolicyAttribs => ks[i].Issued = sent.Epoch[ks[i].Attrib]

\* The rows of the policy labelled by the bag's attributes span (1, 0, ..., 0)
\* over Z_P.
SpanningBag ==
    LET good == GoodRows(ct.val.Msp, ks)
        mat == ct.val.Msp.Mat
    IN  \E c \in [1..Len(good) -> 0..(P - 1)] :
           \A j \in 1..Cols(mat) :
              (SeqSum([k \in 1..Len(good) |-> c[k] * mat[good[k]][j]])
                 - (IF j = 1 THEN 1 ELSE 0)) % P = 0

\* C1: Decrypt of a ciphertext of a non-empty message with a bag of keys of
\* one gid, issued from the pairs behind the public keys used, whose rows
\* span (1, 0, ..., 0) over Z_P, returns the message and no error.
C1_RoundTrip ==
    (Decrypted /\ SingleGid /\ KeysOfCipherPairs /\ SpanningBag)
        => (res.err = "nil" /\ res.out = sent.msg)

\* C1's case: the policy a AND b decrypted by the keys of user u2.
C1_Witness ==
    /\ Decrypted /\ SingleGid /\ KeysOfCipherPairs /\ SpanningBag
    /\ Cols(ct.val.Msp.Mat) = 2
    /\ ks[1].Gid = "u2"
    /\ res.out = sent.msg

\* C2: Decrypt with a non-empty bag of one gid whose rows do not span
\* (1, 0, ..., 0), the bag with no attribute of the policy included, returns
\* the solver's error and not the plaintext.
C2_InsufficientAttributes ==
    (Decrypted /\ SingleGid /\ ~SpanningBag)
        => (res.err = "no solution" /\ res.out # sent.msg)

\* The pair of an attribute of the policy was regenerated after Encrypt.
RotatedSince(at) == at \in PolicyAttribs /\ auth[Owner(at)].Epoch[at] > sent.Epoch[at]

\* The bag holds a key of the attribute issued from the pair Encrypt used.
HoldsOldKey(at) ==
    \E i \in 1..Len(ks) : ks[i].Attrib = at /\ ks[i].Issued = sent.Epoch[at]

\* C3 as stated: after Encrypt under a policy with attribute a and then
\* RegenerateKey(a), Decrypt of that ciphertext with the key of a issued
\* before the rotation does not return the plaintext.
C3_OldKeyFails ==
    \A at \in AttribNames :
        (Decrypted /\ RotatedSince(at) /\ HoldsOldKey(at))
            => ~(res.err = "nil" /\ res.out = sent.msg)

\* What the session key Decrypt recovers is short of the one Encrypt drew:
\* for every good attribute, the solver's coefficient times C2's exponent
\* times the difference between the pair in the public key used and the
\* pair in the user's key.
Shift ==
    LET good == GoodAttribs(ct.val.Msp, ks)
        hash == HashG1(ks[1].Gid)
    IN  SeqSum([k \in 1..Len(good) |->
                  res.c[k] * sent.r[good[k]]
                    * (sent.pks[good[k]].EggToAlpha[good[k]]
                         + hash * sent.pks[good[k]].GToY[good[k]]
                         + P * P - AToK(ks)[good[k]].Key)]) % P

\* C3 amended: RegenerateKey revokes nothing that was issued.  Decrypt
\* returns the plaintext exactly when the shift between the pairs of the
\* ciphertext and of the keys is 0 mod P, and it is 0 whenever the keys
\* were issued from the pairs the ciphertext was made with, whatever
\* RegenerateKey did since.
C3_RotationRevokesNothing ==
    res.symKey # -1 =>
        /\ res.symKey = (sent.symKey + P - Shift) % P
        /\ (res.err = "nil" /\ res.out = sent.msg) <=> (Shift = 0)
        /\ KeysOfCipherPairs => Shift = 0

\* C3's case: the pair of a was replaced after Encrypt and the bag's key of
\* a is from before; Decrypt has run.
C3_Witness ==
    /\ Decrypted
    /\ res.symKey # -1
    /\ RotatedSince("a") /\ HoldsOldKey("a")
    /\ KeysOfCipherPairs
    /\ auth["auth1"].Sk.Alpha["a"] # sent.pks["a"].EggToAlpha["a"]
    /\ auth["auth1"].Sk.Y["a"] # sent.pks["a"].GToY["a"]

\* C4: Decrypt with a bag that holds keys of two gids returns the gid error
\* and no plaintext, also when the attributes of the bag satisfy the policy.
C4_SingleGidOnly ==
    (Decrypted /\ MixedGids)
        => (res.err = "not all GIDs are the same" /\ res.out = <<>>)

\* C4's case: keys of u1 and u2 that together satisfy the policy.
C4_Witness ==
    /\ Decrypted /\ MixedGids
    /\ SpanningBag /\ KeysOfCipherPairs
    /\ Len(ct.val.Msp.RowToAttrib) = 2

\* C5: Decrypt returns an error whenever the last decrypted byte exceeds
\* the block size or the length of the decrypted data.
C5_PaddingValidated ==
    (res.padLen > BlockSize \/ res.padLen > Len(ct.val.SymEnc)) => res.err # "nil"

\* ---------------------------------------------------------------------
\* The authority's attribute table: AddAttribute, RegenerateKey,
\* GenerateAttribKeys and PubKeys called in any order on the authorities.

\* Assignment m[k] = v to a Go map.
MapPutOnly(f, k, v) == [x \in {k} |-> v]

MapPutAll(f, k, v) == [x \in (DOMAIN f) \union {k} |-> v]

MapPut(f, k, v) == [x \in (DOMAIN f) \union {k} |-> IF x = k THEN v ELSE f[x]]

\* The attributes an authority holds: the keys of its secret maps.
Held(a) == (DOMAIN a.Sk.Alpha) \union (DOMAIN a.Sk.Y)

HoldsNever(a, attrib) == FALSE

\* AddAttribute's test that the attribute already exists.
Holds(a, attrib) == attrib \in DOMAIN a.Sk.Alpha \/ attrib \in DOMAIN a.Sk.Y

PublicPairOfAlpha(alpha, y) ==
    [EggToAlpha |-> ScalarMult(gt, alpha), GToY |-> ScalarMult(g2, alpha)]

\* The public pair made from a sampled secret pair.
PublicPair(alpha, y) ==
    [EggToAlpha |-> ScalarMult(gt, alpha), GToY |-> ScalarMult(g2, y)]

\* AddAttribute(attrib) with the sampled pair skVals.
AddAttribute(a, attrib, skVals) ==
    IF attrib = "" THEN [err |-> "attribute cannot be an empty string", val |-> a]
    ELSE IF Holds(a, attrib) THEN [err |-> "attribute already exists", val |-> a]
    ELSE LET alpha == skVals[1]
             y == skVals[2]
             pub == PublicPair(alpha, y)
         IN  [err |-> "nil",
              val |-> [ID |-> a.ID,
                       Pk |-> [Attribs |-> Append(a.Pk.Attribs, attrib),
                               EggToAlpha |-> MapPut(a.Pk.EggToAlpha, attrib, pub.EggToAlpha),
                               GToY |-> MapPut(a.Pk.GToY, attrib, pub.GToY)],
                       Sk |-> [Attribs |-> Append(a.Sk.Attribs, attrib),
                               Alpha |-> MapPut(a.Sk.Alpha, attrib, alpha),
                               Y |-> MapPut(a.Sk.Y, attrib, y)],
                       Epoch |-> [at \in (DOMAIN a.Epoch) \union {attrib} |->
                                    IF at = attrib THEN 0 ELSE a.Epoch[at]]]]

\* The attribute lists the modelled authorities are made with.  The first
\* authority is made with an empty name among its attributes, which
\* NewMAABEAuth accepts.
TableAttribs(id) == IF id = "auth1" THEN <<"a", "">> ELSE <<"b">>

\* The authority the modelled calls are made on.
TableIds == {"auth1"}

\* The attribute names the modelled calls pass.
CallNames == {"a", "b", ""}

\* The gids and the attribute lists of the modelled calls of
\* GenerateAttribKeys.
CallGids == {"u1", ""}

Requests == { <<>>, <<"a">>, <<"a", "b">>, <<"b", "a">>, <<"a", "z">> }

\* The number of calls of AddAttribute and RegenerateKey in a run that
\* succeed.
MaxUpdates == 2

\* The successful calls of AddAttribute and RegenerateKey so far.
Updates ==
    SeqSum([i \in 1..2 |->
              LET a == auth[IF i = 1 THEN "auth1" ELSE "auth2"]
                  ats == a.Sk.Attribs
              IN  (Len(ats) - Len(TableAttribs(a.ID)))
                    + SeqSum([j \in 1..Len(ats) |-> a.Epoch[ats[j]]])])

\* A container (slice or map) of a record handed to a caller: either an
\* object of its own holding val, or the authority's own container.
NewObject(v) == [own |-> FALSE, val |-> v]

OwnObject == [own |-> TRUE, val |-> <<>>]

PubKeyFields == {"Attribs", "EggToAlpha", "GToY"}

ReturnedOwn(id, a) ==
    [of |-> id, Attribs |-> OwnObject, EggToAlpha |-> OwnObject, GToY |-> OwnObject]

\* The record PubKeys returns, as objects: a new slice and two new maps
\* that hold copies of the authority's.
Returned(id, a) ==
    [of |-> id,
     Attribs |-> NewObject(PubKeys(a).Attribs),
     EggToAlpha |-> NewObject(PubKeys(a).EggToAlpha),
     GToY |-> NewObject(PubKeys(a).GToY)]

\* What a container of a returned record holds now.
ReadField(r, f) == IF r[f].own THEN auth[r.of].Pk[f] ELSE r[f].val

View(r) == [f \in PubKeyFields |-> ReadField(r, f)]

\* What a caller writes into a container: every name or group element of
\* it is overwritten.
Overwritten(f, c) ==
    IF f = "Attribs" THEN [i \in 1..Len(c) |-> "x"] ELSE [at \in DOMAIN c |-> 0]

NoRecord ==
    [rec |-> [of |-> "none"], got |-> <<>>, from |-> <<>>, written |-> FALSE]

NoCall ==
    [op |-> "none", id |-> "", attrib |-> "", gid |-> "", attribs |-> <<>>,
     skVals |-> <<>>, err |-> "nil", before |-> <<>>]

AuthOnly == UNCHANGED <<ct, lwe, srch, dmc>>

\* The values NewMAABEAuth draws for the authorities are one run of the
\* sampler.
InitAuth ==
    /\ \E d \in { u \in UniformVectors(6) : u[1] = 1 } :
          auth = [id \in Authorities |->
                    IF id = "auth1"
                    THEN NewMAABEAuth(id, TableAttribs(id), <<d[1], d[2]>>, <<d[3], d[4]>>).val
                    ELSE NewMAABEAuth(id, TableAttribs(id), <<d[5]>>, <<d[6]>>).val]
    /\ ks = <<>>
    /\ sent = NoRecord
    /\ res = NoCall
    /\ ct = Idle /\ lwe = Idle /\ srch = Idle /\ dmc = Idle

\* A call of AddAttribute on an authority.
AuthAdd ==
    /\ \E id \in TableIds, attrib \in CallNames, skVals \in UniformVectors(2) :
          LET got == AddAttribute(auth[id], attrib, skVals)
          IN  /\ got.err = "nil" => Updates < MaxUpdates
              /\ auth' = [auth EXCEPT ![id] = got.val]
              /\ res' = [NoCall EXCEPT !.op = "AddAttribute", !.id = id, !.attrib = attrib,
                                       !.skVals = IF got.err = "nil" THEN skVals ELSE <<>>,
                                       !.err = got.err, !.before = auth[id]]
    /\ ks' = <<>>
    /\ UNCHANGED sent
    /\ AuthOnly

\* A call of RegenerateKey on an authority.
AuthRegenerate ==
    /\ \E id \in TableIds, attrib \in CallNames, skVals \in UniformVectors(2) :
          LET got == RegenerateKey(auth[id], attrib, skVals)
          IN  /\ got.err = "nil" => Updates < MaxUpdates
              /\ auth' = [auth EXCEPT ![id] = got.val]
              /\ res' = [NoCall EXCEPT !.op = "RegenerateKey", !.id = id, !.attrib = attrib,
                                       !.skVals = IF got.err = "nil" THEN skVals ELSE <<>>,
                                       !.err = got.err, !.before = auth[id]]
    /\ ks' = <<>>
    /\ UNCHANGED sent
    /\ AuthOnly

\* A call of GenerateAttribKeys on an authority; ks is what it returns.
AuthIssue ==
    /\ \E id \in TableIds, gid \in CallGids, attribs \in Requests :
          LET got == GenerateAttribKeys(auth[id], gid, attribs)
          IN  /\ ks' = got.val
              /\ res' = [NoCall EXCEPT !.op = "GenerateAttribKeys", !.id = id, !.gid = gid,
                                       !.attribs = attribs, !.err = got.err,
                                       !.before = auth[id]]
    /\ UNCHANGED <<auth, sent>>
    /\ AuthOnly

\* A call of PubKeys on an authority; the caller keeps the record.
AuthPubKeys ==
    /\ sent.rec.of = "none"
    /\ \E id \in TableIds :
          /\ sent' = [rec |-> Returned(id, auth[id]),
                      got |-> View(Returned(id, auth[id])),
                      from |-> auth[id],
                      written |-> FALSE]
          /\ res' = [NoCall EXCEPT !.op = "PubKeys", !.id = id, !.before = auth[id]]
    /\ ks' = <<>>
    /\ UNCHANGED auth
    /\ AuthOnly

\* The caller overwrites a container of the record PubKeys returned.
CallerWrites ==
    /\ sent.rec.of # "none"
    /\ ~sent.written
    /\ \E f \in PubKeyFields :
          LET c == Overwritten(f, ReadField(sent.rec, f))
          IN  /\ IF sent.rec[f].own
                 THEN /\ auth' = [auth EXCEPT ![sent.rec.of].Pk[f] = c]
                      /\ sent' = [sent EXCEPT !.got[f] = c, !.written = TRUE]
                 ELSE /\ auth' = auth
                      /\ sent' = [sent EXCEPT !.rec[f].val = c, !.got[f] = c,
                                              !.written = TRUE]
              /\ res' = [NoCall EXCEPT !.op = "CallerWrites", !.id = sent.rec.of,
                                       !.attrib = f, !.before = auth[sent.rec.of]]
    /\ ks' = <<>>
    /\ AuthOnly

NextAuth ==
    \/ AuthAdd
    \/ AuthRegenerate
    \/ AuthIssue
    \/ AuthPubKeys
    \/ CallerWrites

SpecAuth == InitAuth /\ [][NextAuth]_vars

\* The last call was op and returned err.
Called(op, err) == res.op = op /\ res.err = err

\* C11: over any sequence of calls of AddAttribute and RegenerateKey,
\* successful or failed, no attribute an authority holds is ever removed; a
\* successful AddAttribute(a) adds exactly a to the held set and appends it
\* to both Attribs lists; a failed AddAttribute and every RegenerateKey
\* leave the held set and both Attribs lists as they were.
C11_AttributesOnlyGrow ==
    [][\A id \in Authorities :
          /\ Held(auth[id]) \subseteq Held(auth'[id])
          /\ IF res'.op = "AddAttribute" /\ res'.err = "nil" /\ res'.id = id
             THEN /\ res'.attrib \notin Held(auth[id])
                  /\ Held(auth'[id]) = Held(auth[id]) \union {res'.attrib}
                  /\ auth'[id].Sk.Attribs = Append(auth[id].Sk.Attribs, res'.attrib)
                  /\ auth'[id].Pk.Attribs = Append(auth[id].Pk.Attribs, res'.attrib)
             ELSE /\ Held(auth'[id]) = Held(auth[id])
                  /\ auth'[id].Sk.Attribs = auth[id].Sk.Attribs
                  /\ auth'[id].Pk.Attribs = auth[id].Pk.Attribs]_vars

\* A successful AddAttribute after a successful RegenerateKey.
C11_Witness ==
    /\ Called("AddAttribute", "nil")
    /\ \E at \in Held(res.before) : res.before.Epoch[at] > 0

\* C12 as stated: AddAttribute(a) on an authority that holds a fails with
\* the duplicate-attribute error and leaves the authority unchanged.
C12_DuplicateRejected ==
    (res.op = "AddAttribute" /\ res.attrib \in Held(res.before))
        => /\ res.err = "attribute already exists"
           /\ auth[res.id] = res.before

\* C12 amended: AddAttribute(a) on an authority that holds a fails and
\* leaves the authority unchanged (both pairs and both lists); the error is
\* the duplicate-attribute error for a non-empty a, and the empty-name error
\* for the empty name, which is tested first.
C12_HeldNameRejected ==
    (res.op = "AddAttribute" /\ res.attrib \in Held(res.before))
        => /\ res.err = IF res.attrib = "" THEN "attribute cannot be an empty string"
                        ELSE "attribute already exists"
           /\ auth[res.id] = res.before

\* AddAttribute of a held, non-empty name after the authority was updated.
C12_Witness ==
    /\ Called("AddAttribute", "attribute already exists")
    /\ res.attrib \in Held(res.before)
    /\ Updates > 0

\* The pair of an attribute is the one made from the pair skVals.
PairIs(a, attrib, skVals) ==
    /\ a.Sk.Alpha[attrib] = skVals[1]
    /\ a.Sk.Y[attrib] = skVals[2]
    /\ a.Pk.EggToAlpha[attrib] = (skVals[1] * gt) % P
    /\ a.Pk.GToY[attrib] = (skVals[2] * g2) % P

\* C13 as stated: RegenerateKey(a) on an authority that does not hold a
\* fails with the unknown-attribute error and changes nothing; on an
\* authority that holds a it succeeds and replaces the secret and the
\* public pair of a.
C13_RegenerateOutcome ==
    res.op = "RegenerateKey"
        => IF res.attrib \notin Held(res.before)
           THEN /\ res.err = "attribute does not exist yet"
                /\ auth[res.id] = res.before
           ELSE /\ res.err = "nil"
                /\ PairIs(auth[res.id], res.attrib, res.skVals)

\* C13 amended: RegenerateKey of the empty name fails with the empty-name
\* error and changes nothing, held or not; RegenerateKey(a) for a non-empty
\* a fails with the unknown-attribute error and changes nothing when a is
\* not held, and succeeds and replaces the secret and the public pair of a
\* when a is held.
C13_RegenerateNonEmpty ==
    res.op = "RegenerateKey"
        => IF res.attrib = ""
           THEN /\ res.err = "attribute cannot be an empty string"
                /\ auth[res.id] = res.before
           ELSE IF res.attrib \notin Held(res.before)
           THEN /\ res.err = "attribute does not exist yet"
                /\ auth[res.id] = res.before
                /\ res.attrib \notin Held(auth[res.id])
           ELSE /\ res.err = "nil"
                /\ PairIs(auth[res.id], res.attrib, res.skVals)

\* A successful RegenerateKey that changed both halves of the secret pair.
C13_Witness ==
    /\ Called("RegenerateKey", "nil")
    /\ auth[res.id].Sk.Alpha[res.attrib] # res.before.Sk.Alpha[res.attrib]
    /\ auth[res.id].Sk.Y[res.attrib] # res.before.Sk.Y[res.attrib]

\* The keys returned are one per requested attribute, in request order,
\* each with the gid, the attribute and g1^alpha * H(gid)^y of the
\* authority's pair.
KeysAsRequested ==
    /\ res.err = "nil"
    /\ Len(ks) = Len(res.attribs)
    /\ \A i \in 1..Len(ks) :
          /\ ks[i].Gid = res.gid
          /\ ks[i].Attrib = res.attribs[i]
          /\ ks[i].Key = (g1 * auth[res.id].Sk.Alpha[res.attribs[i]]
                            + HashG1(res.gid) * auth[res.id].Sk.Y[res.attribs[i]]) % P

SomeNotHeld == \E i \in 1..Len(res.attribs) : res.attribs[i] \notin Held(res.before)

\* C14 as stated: GenerateAttribKeys returns the unknown-attribute error
\* and no keys if some requested attribute is not held, and otherwise one
\* key per requested attribute as in KeysAsRequested.
C14_AllOrNothing ==
    res.op = "GenerateAttribKeys"
        => IF SomeNotHeld
           THEN res.err = "attribute not found in secret key" /\ ks = <<>>
           ELSE KeysAsRequested

\* C14 amended: GenerateAttribKeys first rejects an empty gid and then an
\* empty attribute list, each with its own error and no keys; for a
\* non-empty gid and a non-empty list it returns the unknown-attribute error
\* and no keys if some requested attribute is not held, and otherwise one
\* key per requested attribute as in KeysAsRequested.
C14_AllOrNothingNonEmpty ==
    res.op = "GenerateAttribKeys"
        => IF res.gid = "" THEN res.err = "GID cannot be empty" /\ ks = <<>>
           ELSE IF res.attribs = <<>> THEN res.err = "attribute cannot be empty" /\ ks = <<>>
           ELSE IF SomeNotHeld
           THEN res.err = "attribute not found in secret key" /\ ks = <<>>
           ELSE KeysAsRequested

\* Two keys issued in one call, the added attribute requested first.
C14_Witness ==
    /\ Called("GenerateAttribKeys", "nil")
    /\ Len(ks) = 2
    /\ ks[1].Attrib = "b"
    /\ ks[1].Key # ks[2].Key

\* The public key of an authority, as the contents of its three containers.
PublicKeyOf(a) == [f \in PubKeyFields |-> a.Pk[f]]

\* C16: the record PubKeys returned is a copy of its own.  Calls of
\* AddAttribute and RegenerateKey made on the authority afterwards leave the
\* record's attribute list and both maps as they were returned (and, once
\* the caller has written to the record, as the caller left them), and the
\* caller's writes to the record leave the authority as it was.
C16_PubKeysIsACopy ==
    /\ (sent.rec.of # "none" /\ ~sent.written)
          => View(sent.rec) = PublicKeyOf(sent.from)
    /\ sent.rec.of # "none" => View(sent.rec) = sent.got
    /\ res.op = "CallerWrites" => auth[res.id] = res.before

\* A record was returned, the authority then added an attribute and
\* regenerated the pair of "a", and the caller wrote to the record.
C16_Witness ==
    /\ sent.rec.of # "none"
    /\ sent.written
    /\ auth[sent.rec.of].Pk.Attribs # sent.from.Pk.Attribs
    /\ auth[sent.rec.of].Pk.EggToAlpha["a"] # sent.from.Pk.EggToAlpha["a"]
    /\ PublicKeyOf(auth[sent.rec.of]) # sent.got

\* C20: in every state reached from NewMAABEAuth by calls of AddAttribute
\* and RegenerateKey, the maps Alpha, Y, EggToAlpha and GToY of an authority
\* have the same keys, and for each key the public pair is
\* (egt^Alpha[a], g2^Y[a]).
C20_TableConsistent ==
    \A id \in Authorities :
       LET a == auth[id]
       IN  /\ DOMAIN a.Sk.Alpha = DOMAIN a.Sk.Y
           /\ DOMAIN a.Sk.Alpha = DOMAIN a.Pk.EggToAlpha
           /\ DOMAIN a.Sk.Alpha = DOMAIN a.Pk.GToY
           /\ \A at \in DOMAIN a.Sk.Alpha :
                 /\ a.Pk.EggToAlpha[at] = (a.Sk.Alpha[at] * gt) % P
                 /\ a.Pk.GToY[at] = (a.Sk.Y[at] * g2) % P

\* An authority that added an attribute and regenerated a pair.
C20_Witness ==
    \E id \in Authorities :
       /\ Len(auth[id].Sk.Attribs) > Len(TableAttribs(id))
       /\ \E at \in Held(auth[id]) : auth[id].Epoch[at] > 0

\* The last call of Encrypt was given an MSP in which some attribute labels
\* more than one row.
AskedRepeats ==
    Cardinality(Range(sent.asked.msp.RowToAttrib)) < Len(sent.asked.msp.RowToAttrib)

\* C15: Encrypt of an MSP whose rowToAttrib is not injective returns an
\* error and no ciphertext, whatever the message and the public keys.
C15_RepeatedAttributeRejected ==
    (ct.err # "pending" /\ AskedRepeats)
        => /\ ct.err = "some attributes correspond to multiple rows"
           /\ ct.val = NoCipher

\* Encrypt of a non-empty message was given an MSP with a repeated
\* attribute for which the public keys were at hand.
C15_Witness ==
    /\ ct.err # "pending"
    /\ AskedRepeats
    /\ sent.asked.msg # <<>>
    /\ \A at \in Range(sent.asked.msp.RowToAttrib) : at \in Held(auth[Owner(at)])

\* The keys of the bag whose attribute labels a row of the policy.
RelevantKeys == SelectSeq(ks, LAMBDA k : k.Attrib \in PolicyAttribs)

\* C19: Decrypt uses only the keys whose attribute labels a row of the
\* ciphertext's policy.  What Decrypt returns for a bag of keys of one gid
\* that holds keys of other attributes is what it returns for the bag
\* without them, as long as a key is left; a bag of keys of other
\* attributes only has one outcome, whatever its keys.
C19_OtherKeysIgnored ==
    (Decrypted /\ SingleGid /\ Len(RelevantKeys) < Len(ks))
        => IF RelevantKeys # <<>>
           THEN res \in { MAABEDecrypt(ct.val, RelevantKeys, sol) :
                             sol \in SolverCall(ct.val, RelevantKeys) }
           ELSE res = NoPlain("panic: index out of range")

\* A bag that holds a key of an attribute outside the policy besides the
\* keys that decrypt the ciphertext.
C19_Witness ==
    /\ Decrypted
    /\ SingleGid
    /\ RelevantKeys # <<>>
    /\ Len(RelevantKeys) < Len(ks)
    /\ res.err = "nil"
    /\ res.out = sent.msg

\* ---------------------------------------------------------------------
\* The rounding of Decrypt on one coordinate: a value v is encoded by
\* center, noise e is added mod Q, and Decrypt's lift and division decode.

\* NewRingLWE sets Q to floor(qFloat) * K with K = P; the modelled runs have
\* floor(qFloat) in 1..MaxQFactor.
MaxQFactor == 6

\* The noise e with -Q/(2P) <= e < Q/(2P).
NoiseInBound(PP, Q) == { e \in (0 - Q)..Q : 0 - Q <= 2 * PP * e /\ 2 * PP * e < Q }

RoundStart(l, boundX, boundY, qFactor, v, e) ==
    [ P   |-> 2 * l * boundX * boundY,
      Q   |-> qFactor * (2 * l * boundX * boundY),
      v   |-> v,
      e   |-> e,
      d   |-> 0,
      out |-> 0,
      pc  |-> "encode" ]

InitRound ==
    /\ \E l \in 1..MaxL, boundX \in 1..MaxBound, boundY \in 1..MaxBound,
          qFactor \in 1..MaxQFactor :
       \E v \in (0 - l * boundX * boundY)..(l * boundX * boundY),
          e \in NoiseInBound(2 * l * boundX * boundY, qFactor * (2 * l * boundX * boundY)) :
          lwe = RoundStart(l, boundX, boundY, qFactor, v, e)
    /\ auth = Idle /\ ks = Idle /\ ct = Idle /\ sent = Idle /\ res = Idle
    /\ srch = Idle /\ dmc = Idle

\* Encrypt's center of the value, the noise, and Decrypt's d.Mod(Q).
CenterAndNoise ==
    /\ lwe.pc = "encode"
    /\ lwe' = [lwe EXCEPT !.d = (center(lwe, <<<<lwe.v>>>>)[1][1] + lwe.e) % lwe.Q,
                          !.pc = "decode"]
    /\ UNCHANGED <<auth, ks, ct, sent, res, srch, dmc>>

\* Decrypt's lift and division.
LiftAndRound ==
    /\ lwe.pc = "decode"
    /\ lwe' = [lwe EXCEPT !.out = DecryptRound(lwe, lwe.d), !.pc = "done"]
    /\ UNCHANGED <<auth, ks, ct, sent, res, srch, dmc>>

NextRound == CenterAndNoise \/ LiftAndRound

SpecRound == InitRound /\ [][NextRound]_vars

\* C18: Q is a positive multiple of P, and for every v with |v| <= P/2 and
\* noise e with -Q/(2P) <= e < Q/(2P), Decrypt's lift and
\* floor((d * P + floor(Q/2)) / Q) of d = (center(v) + e) mod Q is v.
C18_RoundingInvariant ==
    /\ lwe.Q > 0 /\ lwe.Q % lwe.P = 0
    /\ lwe.pc = "done" => lwe.out = lwe.v

\* ---------------------------------------------------------------------
\* Key versions: senders keep the records PubKeys returned and encrypt with
\* them later, while the authorities add attributes, regenerate pairs and
\* issue keys in any order.

\* The attribute the modelled calls of AddAttribute add; no policy names it.
AddedNames == {"c"}

\* The pair the modelled calls of AddAttribute draw.
AddedDraws == { d \in UniformVectors(2) : d[1] = 2 }

\* The message of the modelled calls of Encrypt.
VersionMessages == { <<3, 4>> }

\* The policies of the modelled calls of Encrypt: those Encrypt accepts.
VersionPolicies == { msp \in Policies : ~RepeatsAttrib(msp) }

\* The pairs the modelled calls of RegenerateKey draw.
RotateDraws == { d \in UniformVectors(2) : d[1] # 1 }

\* The runs of the sampler in the modelled calls of Encrypt.
EncryptDraws(n) == { d \in UniformVectors(n) : d[1] = 0 }

\* The user the modelled keys are issued to.
VersionGids == {"u1"}

\* A sender's copy of an authority's public key; Epoch is the number of
\* pairs each attribute had had when PubKeys returned it.
NoSnapshot ==
    [taken |-> FALSE,
     pk |-> [Attribs |-> <<>>, EggToAlpha |-> <<>>, GToY |-> <<>>],
     Epoch |-> <<>>]

\* What the sender has: the copies, and what NotSent holds.
WithSnapshots(s, snaps) ==
    [msg |-> s.msg, symKey |-> s.symKey, pks |-> s.pks, Epoch |-> s.Epoch,
     r |-> s.r, asked |-> s.asked, snaps |-> snaps]

InitVersions ==
    /\ \E d \in AuthDraws :
          auth = [id \in Authorities |->
                    IF id = "auth1"
                    THEN NewMAABEAuth(id, AuthAttribs(id), <<d[1]>>, <<d[2]>>).val
                    ELSE NewMAABEAuth(id, AuthAttribs(id), <<d[3]>>, <<d[4]>>).val]
    /\ ks = <<>>
    /\ ct = [err |-> "pending", val |-> NoCipher]
    /\ sent = WithSnapshots(NotSent, [id \in Authorities |-> NoSnapshot])
    /\ res = NoPlain("pending")
    /\ lwe = Idle /\ srch = Idle /\ dmc = Idle

\* An authority adds an attribute.
AddsAttribute ==
    /\ res.err = "pending"
    /\ \E id \in Authorities, attrib \in AddedNames, skVals \in AddedDraws :
          /\ AddAttribute(auth[id], attrib, skVals).err = "nil"
          /\ auth' = [auth EXCEPT ![id] = AddAttribute(auth[id], attrib, skVals).val]
    /\ UNCHANGED <<ks, ct, sent, res>>
    /\ AbeOnly

\* An authority regenerates the pair of an attribute.
RegeneratesPair ==
    /\ res.err = "pending"
    /\ Rotations < MaxRotations
    /\ \E at \in {"a", "b"}, skVals \in RotateDraws :
          /\ RegenerateKey(auth[Owner(at)], at, skVals).err = "nil"
          /\ auth' = [auth EXCEPT ![Owner(at)] = RegenerateKey(auth[Owner(at)], at, skVals).val]
    /\ UNCHANGED <<ks, ct, sent, res>>
    /\ AbeOnly

\* An authority issues a key of one of its attributes to the user, who adds
\* it to the bag.
IssuesKey ==
    /\ res.err = "pending"
    /\ Len(ks) < MaxKeys
    /\ \E gid \in VersionGids, at \in {"a", "b"} :
          LET got == GenerateAttribKeys(auth[Owner(at)], gid, <<at>>)
          IN  /\ got.err = "nil"
              /\ ks' = ks \o got.val
    /\ UNCHANGED <<auth, ct, sent, res>>
    /\ AbeOnly

\* A sender calls PubKeys on an authority and keeps the record.
TakesSnapshot ==
    /\ res.err = "pending"
    /\ ct.err = "pending"
    /\ \E id \in Authorities :
          /\ ~sent.snaps[id].taken
          /\ sent' = [sent EXCEPT !.snaps[id] =
                        [taken |-> TRUE, pk |-> PubKeys(auth[id]), Epoch |-> auth[id].Epoch]]
    /\ UNCHANGED <<auth, ks, ct, res>>
    /\ AbeOnly

\* The sender encrypts with the records kept.
EncryptsWithSnapshots ==
    /\ res.err = "pending"
    /\ ct.err = "pending"
    /\ \E msg \in VersionMessages, msp \in VersionPolicies, symKey \in SymKeys, iv \in IVs :
       \E d \in EncryptDraws(2 * Cols(msp.Mat) + Rows(msp.Mat)) :
          LET v == SubSeq(d, 1, Cols(msp.Mat))
              wI == SubSeq(d, Cols(msp.Mat) + 1, 2 * Cols(msp.Mat))
              rI == SubSeq(d, 2 * Cols(msp.Mat) + 1, Len(d))
              pks == <<sent.snaps["auth1"].pk, sent.snaps["auth2"].pk>>
              got == MAABEEncrypt(msg, msp, pks, symKey, iv, v, wI, rI)
              asked == [msg |-> msg, msp |-> msp]
          IN  /\ ct' = got
              /\ sent' = IF got.err # "nil"
                         THEN [sent EXCEPT !.asked = asked]
                         ELSE [msg |-> msg,
                               symKey |-> symKey,
                               pks |-> [at \in Range(msp.RowToAttrib) |-> FoundPK(pks, at)],
                               Epoch |-> [at \in Range(msp.RowToAttrib) |->
                                            sent.snaps[Owner(at)].Epoch[at]],
                               r |-> MapOf(msp.RowToAttrib, rI),
                               asked |-> asked,
                               snaps |-> sent.snaps]
    /\ UNCHANGED <<auth, ks, res>>
    /\ AbeOnly

NextVersions ==
    \/ AddsAttribute
    \/ RegeneratesPair
    \/ TakesSnapshot
    \/ IssuesKey
    \/ EncryptsWithSnapshots
    \/ Decrypt

SpecVersions == InitVersions /\ [][NextVersions]_vars

\* For every attribute the reconstruction uses (a good row with a non-zero
\* coefficient), the key Decrypt takes from the bag was issued from the pair
\* whose public half is in the record Encrypt used: no RegenerateKey of the
\* attribute came between PubKeys and GenerateAttribKeys, in either order.
UsedKeysMatch ==
    LET good == GoodAttribs(ct.val.Msp, ks)
    IN  /\ Len(res.c) = Len(good)
        /\ \A k \in 1..Len(good) :
              res.c[k] # 0 => AToK(ks)[good[k]].Issued = sent.Epoch[good[k]]

\* C21: over any interleaving of AddAttribute, RegenerateKey, PubKeys,
\* GenerateAttribKeys and Encrypt, Decrypt with a bag of keys of one gid that
\* satisfies the policy returns the message whenever, for each attribute
\* used in the reconstruction, no RegenerateKey of that attribute came
\* between the PubKeys record Encrypt used and the key's issuance; calls of
\* AddAttribute and RegenerateKey of other attributes in between change
\* nothing.
C21_VersionsConsistent ==
    (Decrypted /\ SingleGid /\ SpanningBag /\ UsedKeysMatch)
        => (res.err = "nil" /\ res.out = sent.msg)

\* Decrypt returned the message of a ciphertext of "a AND b" made with a
\* record of the first authority from before it added "c" and before the
\* other authority regenerated the pair of "b", and with a record of the
\* other authority from after that.
C21_Witness ==
    /\ Decrypted
    /\ SingleGid /\ SpanningBag /\ UsedKeysMatch
    /\ \A k \in 1..Len(res.c) : res.c[k] # 0
    /\ PolicyAttribs = {"a", "b"}
    /\ sent.Epoch["a"] = 0 /\ sent.Epoch["b"] = 1
    /\ "c" \in Held(auth["auth1"]) /\ "c" \notin Range(sent.pks["a"].Attribs)
    /\ res.err = "nil" /\ res.out = sent.msg

====
